---- MODULE Spec2Model ----
(***************************************************************************)
(* UPager license server (src/license_server.py): the license lifecycle    *)
(* create / activate / verify / deactivate over the three SQLite tables    *)
(* licenses, activations and verification_log.                             *)
(*                                                                         *)
(* Every request handler opens its own connection (sqlite3.connect) and    *)
(* the server answers requests concurrently, so a handler is a process     *)
(* that interleaves with the others.  Python's sqlite3 module runs each    *)
(* SELECT on its own (no transaction is open) and opens a transaction      *)
(* implicitly before the first INSERT/UPDATE; the transaction ends at      *)
(* conn.commit().  A handler is therefore a sequence of steps: one step    *)
(* per SELECT that precedes the first write, and one step for the write    *)
(* transaction (its statements and the commit), which SQLite makes atomic  *)
(* and serial with respect to every other connection.                      *)
(***************************************************************************)
EXTENDS Integers, Sequences, FiniteSets, TLC

(***************************************************************************)
(* Bounds of the model.                                                    *)
(***************************************************************************)
\* number of requests the model lets the server receive
MaxCalls == 3
\* number of times the clock advances
MaxTicks == 1

(***************************************************************************)
(* Input domains.                                                          *)
(***************************************************************************)
\* concurrent request handlers (threads of the server)
Procs == {1, 2}

\* what generate_license_key can return: always upper case
GenKeys == {"K1"}
\* what a caller can send as key: a stored key in either spelling, an unknown key
CallerKeys == {"K1", "k1", "K2"}
MachineIds == {"M1", "M2"}
CreateEmails == {"a@x.com"}
CallerEmails == {"A@X.COM", "b@x.com"}
IPs == {"ip1"}
Tiers == {"pro_lifetime", "pro_annual"}
\* max_activations an admin gives a license
MaxActivationChoices == {1, 2}

\* SQL NULL / Python None, and a present value
Null == <<>>
Some(v) == <<v>>
IsNull(x) == x = Null
Val(x) == x[1]

\* timedelta(days=365); the clock counts days
Days365 == 365
\* the clock moves by a year or by a year and a day
TickSteps == {Days365, Days365 + 1}

(***************************************************************************)
(* String functions, by what they do on the strings of the model.          *)
(***************************************************************************)
\* SQL UPPER(license_key)
Upper(s) ==
    CASE s = "k1" -> "K1"
      [] s = "k2" -> "K2"
      [] OTHER -> s

\* Python str.lower() on an email
Lower(s) ==
    CASE s = "A@X.COM" -> "a@x.com"
      [] s = "B@X.COM" -> "b@x.com"
      [] OTHER -> s

\* Python str.strip() on a request field
Strip(s) == IF s = " " THEN "" ELSE s

\* the characters of a tier string
TierChars(t) ==
    CASE t = "free" -> <<"f","r","e","e">>
      [] t = "pro_lifetime" -> <<"p","r","o","_","l","i","f","e","t","i","m","e">>
      [] t = "pro_annual" -> <<"p","r","o","_","a","n","n","u","a","l">>
      [] t = "enterprise_lifetime" ->
           <<"e","n","t","e","r","p","r","i","s","e","_","l","i","f","e","t","i","m","e">>
      [] t = "enterprise_annual" ->
           <<"e","n","t","e","r","p","r","i","s","e","_","a","n","n","u","a","l">>
      [] t = "team_pro" -> <<"t","e","a","m","_","p","r","o">>
      [] OTHER -> <<"t","r","i","a","l">>

\* str.startswith
StartsWith(s, pre) == Len(pre) <= Len(s) /\ SubSeq(s, 1, Len(pre)) = pre
\* the `in` operator on strings
Contains(s, sub) ==
    \E i \in 1..(Len(s) - Len(sub) + 1) : SubSeq(s, i, i + Len(sub) - 1) = sub

\* a type taken from the tier's name wherever the word stands in it
LicenseTypeByContains(tier) ==
    IF Contains(TierChars(tier), <<"p","r","o">>) THEN "pro"
    ELSE IF Contains(TierChars(tier), <<"e","n","t","e","r","p","r","i","s","e">>)
         THEN "enterprise"
    ELSE "free"

\* create_license: type from tier
LicenseType(tier) ==
    IF StartsWith(TierChars(tier), <<"p","r","o">>) THEN "pro"
    ELSE IF StartsWith(TierChars(tier), <<"e","n","t","e","r","p","r","i","s","e">>)
         THEN "enterprise"
    ELSE "free"

\* create_license: billing_type from tier
BillingType(tier) ==
    IF Contains(TierChars(tier), <<"l","i","f","e","t","i","m","e">>)
    THEN "one-time" ELSE "annual"

(***************************************************************************)
(* State.                                                                  *)
(***************************************************************************)
VARIABLES
    licenses,         \* table licenses: sequence of rows in rowid order
    activations,      \* table activations: sequence of rows in rowid order
    verification_log, \* table verification_log: sequence of rows in rowid order
    pc,               \* per handler: where it is in its request
    local,            \* per handler: its request and what its SELECTs returned
    resp,             \* the response sent last
    now,              \* datetime.utcnow(), in days
    ticks,            \* how often the clock advanced
    calls,            \* requests received so far
    history,          \* the answered requests, in the order of their answers
    recording         \* whether history is kept

vars == <<licenses, activations, verification_log, pc, local, resp, now, ticks,
          calls, history, recording>>

NoLocal == [op |-> "none"]
NoResp == [op |-> "none"]

\* cursor.fetchone() on the rows with rowids ids: the first row of the result,
\* None when it is empty
FetchOne(rows, ids) ==
    IF ids = {} THEN Null
    ELSE Some(rows[CHOOSE i \in ids : \A j \in ids : i <= j])

\* a step of a handler either answers with an error or goes on with what it read
Fail(error) == [fail |-> TRUE, error |-> error]
Proceed(l) == [fail |-> FALSE, l |-> l]

InitTables ==
    /\ licenses = <<>>
    /\ activations = <<>>
    /\ verification_log = <<>>
    /\ pc = [p \in Procs |-> "idle"]
    /\ local = [p \in Procs |-> NoLocal]
    /\ resp = NoResp
    /\ now = 0
    /\ ticks = 0
    /\ calls = 0
    /\ history = <<>>

Init == InitTables /\ recording = FALSE

\* the same server, with the answered requests kept
InitRecording == InitTables /\ recording = TRUE

\* the handler answers request req with response r
Respond(req, r) ==
    /\ resp' = r
    /\ history' = IF recording
                  THEN Append(history, [req |-> req, resp |-> r, t |-> now])
                  ELSE history
    /\ UNCHANGED recording

\* time passes between any two steps
Tick ==
    /\ ticks < MaxTicks
    /\ \E d \in TickSteps : now' = now + d
    /\ ticks' = ticks + 1
    /\ UNCHANGED <<licenses, activations, verification_log, pc, local, resp, calls,
                   history, recording>>

(***************************************************************************)
(* create_license                                                          *)
(***************************************************************************)
\* INSERT INTO licenses: the row the statement writes
NewLicenseRow(key, email, tier, max_activations, t) ==
    [license_key |-> key, email |-> email, type |-> LicenseType(tier),
     tier |-> tier, billing_type |-> BillingType(tier), status |-> "active",
     created_at |-> t, activated_at |-> Null, expires_at |-> Null,
     max_activations |-> max_activations, current_activations |-> 0]

\* a licenses table without the UNIQUE constraint on license_key
NeverCollides(lics, key) == FALSE

\* license_key TEXT UNIQUE: would the insert raise IntegrityError
KeyCollides(lics, key) == \E i \in DOMAIN lics : lics[i].license_key = key

\* the table after create_license, req.key being the generated key
CreateLicenses(lics, req, t) ==
    IF KeyCollides(lics, req.key) THEN lics
    ELSE Append(lics, NewLicenseRow(req.key, req.email, req.tier, req.max_activations, t))

\* what create_license returns: the key, or None on IntegrityError
CreateResponse(lics, req) ==
    IF KeyCollides(lics, req.key)
    THEN [op |-> "create", success |-> FALSE, key |-> Null, error |-> "DuplicateKey"]
    ELSE [op |-> "create", success |-> TRUE, key |-> Some(req.key), error |-> "none"]

CreateLicense(p, email, tier, max_activations) ==
    /\ pc[p] = "idle"
    /\ calls < MaxCalls
    /\ calls' = calls + 1
    /\ \E key \in GenKeys :
         LET req == [op |-> "create", key |-> key, email |-> email, tier |-> tier,
                     max_activations |-> max_activations] IN
         /\ licenses' = CreateLicenses(licenses, req, now)
         /\ Respond(req, CreateResponse(licenses, req))
    /\ UNCHANGED <<activations, verification_log, pc, local, now, ticks>>

(***************************************************************************)
(* activate                                                                *)
(***************************************************************************)
\* a lookup that compares the key as the caller spelled it
SelectLicenseExact(lics, key) ==
    FetchOne(lics, {i \in DOMAIN lics : lics[i].license_key = key})

\* SELECT ... FROM licenses WHERE UPPER(license_key) = UPPER(?); fetchone()
SelectLicense(lics, key) ==
    FetchOne(lics, {i \in DOMAIN lics : Upper(lics[i].license_key) = Upper(key)})

\* email.lower() != license_email.lower()
EmailMismatch(email, license_email) == Lower(email) # Lower(license_email)

\* SELECT status FROM activations WHERE license_key = ? AND machine_id = ?
SelectExisting(acts, key, machine_id) ==
    FetchOne(acts, {i \in DOMAIN acts : /\ acts[i].license_key = key
                                        /\ acts[i].machine_id = machine_id})

\* a limit check that lets one activation too many through
LimitReachedStrict(current_activations, max_activations) ==
    current_activations > max_activations

\* new activation - check limit
LimitReached(current_activations, max_activations) ==
    current_activations >= max_activations

\* UPDATE activations SET last_verified = ?, ip_address = ?
\*   WHERE license_key = ? AND machine_id = ?
TouchActivation(acts, key, machine_id, ip, t) ==
    [i \in DOMAIN acts |->
        IF acts[i].license_key = key /\ acts[i].machine_id = machine_id
        THEN [acts[i] EXCEPT !.last_verified = Some(t), !.ip_address = ip]
        ELSE acts[i]]

\* INSERT INTO activations (...) VALUES (key, machine_id, ip, now, now, 'active')
InsertActivation(acts, key, machine_id, ip, t) ==
    Append(acts, [license_key |-> key, machine_id |-> machine_id, ip_address |-> ip,
                  activated_at |-> t, last_verified |-> Some(t), status |-> "active"])

\* UPDATE licenses SET current_activations = current_activations + 1,
\*   activated_at = COALESCE(activated_at, ?) WHERE license_key = ?
IncrementActivations(lics, key, t) ==
    [i \in DOMAIN lics |->
        IF lics[i].license_key = key
        THEN [lics[i] EXCEPT !.current_activations = @ + 1,
                             !.activated_at = IF IsNull(@) THEN Some(t) ELSE @]
        ELSE lics[i]]

\* an expiry date for every billing type
LicenseExpiresAlways(billing_type, t) == Some(t + Days365)

\* calculate expiry dates: license_expires
LicenseExpires(billing_type, t) ==
    IF billing_type = "one-time" THEN Null ELSE Some(t + Days365)

\* calculate expiry dates: maintenance_expires
MaintenanceExpires(billing_type, t) ==
    IF billing_type = "one-time" THEN Some(t + Days365) ELSE LicenseExpires(billing_type, t)

\* if not expires_at and license_expires
ShouldSetExpiry(expires_at, license_expires) ==
    IsNull(expires_at) /\ ~IsNull(license_expires)

\* UPDATE licenses SET expires_at = ? WHERE license_key = ?
SetExpiry(lics, key, license_expires) ==
    [i \in DOMAIN lics |->
        IF lics[i].license_key = key
        THEN [lics[i] EXCEPT !.expires_at = license_expires]
        ELSE lics[i]]

ActivateFailure(error) == [op |-> "activate", success |-> FALSE, error |-> error]

\* if not all([key, email, machine_id])
MissingFields(req) == req.key = "" \/ req.email = "" \/ req.machine_id = ""

\* activate that compares the email before it looks at the license status
ActivateReadLicenseEmailFirst(lics, req) ==
    LET row == SelectLicense(lics, req.key) IN
    IF IsNull(row) THEN Fail("InvalidKey")
    ELSE IF EmailMismatch(req.email, Val(row).email) THEN Fail("EmailMismatch")
    ELSE IF Val(row).status # "active" THEN Fail("LicenseNotActive")
    ELSE Proceed([op |-> "activate", req |-> req,
                  type |-> Val(row).type, tier |-> Val(row).tier,
                  billing_type |-> Val(row).billing_type,
                  max_activations |-> Val(row).max_activations,
                  current_activations |-> Val(row).current_activations,
                  expires_at |-> Val(row).expires_at,
                  existing |-> FALSE])

\* the first SELECT of activate and the checks on the row it returns
ActivateReadLicense(lics, req) ==
    LET row == SelectLicense(lics, req.key) IN
    IF IsNull(row) THEN Fail("InvalidKey")
    ELSE IF Val(row).status # "active" THEN Fail("LicenseNotActive")
    ELSE IF EmailMismatch(req.email, Val(row).email) THEN Fail("EmailMismatch")
    ELSE Proceed([op |-> "activate", req |-> req,
                  type |-> Val(row).type, tier |-> Val(row).tier,
                  billing_type |-> Val(row).billing_type,
                  max_activations |-> Val(row).max_activations,
                  current_activations |-> Val(row).current_activations,
                  expires_at |-> Val(row).expires_at,
                  existing |-> FALSE])

\* the checks of activate up to its first SELECT: the required fields
\* before the connection is opened, then the license row
ActivateRead(lics, req) ==
    IF MissingFields(req) THEN Fail("ValidationError")
    ELSE ActivateReadLicense(lics, req)

\* the second SELECT of activate and the limit check of a new activation
ActivateReadExisting(acts, l) ==
    IF ~IsNull(SelectExisting(acts, l.req.key, l.req.machine_id))
    THEN Proceed([l EXCEPT !.existing = TRUE])
    ELSE IF LimitReached(l.current_activations, l.max_activations)
    THEN Fail("ActivationLimitReached")
    ELSE Proceed(l)

\* activate that counts a repeated activation as a new one
ActivateLicensesAlwaysCount(lics, l, t) ==
    LET counted == IncrementActivations(lics, l.req.key, t)
    IN  IF ShouldSetExpiry(l.expires_at, LicenseExpires(l.billing_type, t))
        THEN SetExpiry(counted, l.req.key, LicenseExpires(l.billing_type, t))
        ELSE counted

\* the write transaction of activate on the licenses table; l is what the
\* handler holds: its request, the license row it read, the branch it took
ActivateLicenses(lics, l, t) ==
    LET counted == IF l.existing THEN lics
                   ELSE IncrementActivations(lics, l.req.key, t)
    IN  IF ShouldSetExpiry(l.expires_at, LicenseExpires(l.billing_type, t))
        THEN SetExpiry(counted, l.req.key, LicenseExpires(l.billing_type, t))
        ELSE counted

\* the write transaction of activate on the activations table
ActivateActivations(acts, l, t) ==
    IF l.existing
    THEN TouchActivation(acts, l.req.key, l.req.machine_id, l.req.ip, t)
    ELSE InsertActivation(acts, l.req.key, l.req.machine_id, l.req.ip, t)

\* the success response of activate
ActivateSuccess(l, t) ==
    [op |-> "activate", success |-> TRUE, error |-> "none",
     key |-> l.req.key, machine_id |-> l.req.machine_id, existing |-> l.existing,
     type |-> l.type, tier |-> l.tier, billing_type |-> l.billing_type,
     expires |-> LicenseExpires(l.billing_type, t),
     maintenance_expires |-> MaintenanceExpires(l.billing_type, t)]

\* the request arrives; the handler reads the license row and checks it
ActivateLookup(p, key, email, machine_id, ip) ==
    /\ pc[p] = "idle"
    /\ calls < MaxCalls
    /\ calls' = calls + 1
    /\ LET req == [op |-> "activate", key |-> Strip(key), email |-> Strip(email),
                   machine_id |-> Strip(machine_id), ip |-> ip]
           r == ActivateRead(licenses, req) IN
         IF r.fail
         THEN /\ Respond(req, ActivateFailure(r.error))
              /\ UNCHANGED <<pc, local>>
         ELSE /\ pc' = [pc EXCEPT ![p] = "activate_select_existing"]
              /\ local' = [local EXCEPT ![p] = r.l]
              /\ UNCHANGED <<resp, history, recording>>
    /\ UNCHANGED <<licenses, activations, verification_log, now, ticks>>

\* the handler looks for the machine's activation row and checks the limit
ActivateSelectExisting(p) ==
    /\ pc[p] = "activate_select_existing"
    /\ LET r == ActivateReadExisting(activations, local[p]) IN
         IF r.fail
         THEN /\ pc' = [pc EXCEPT ![p] = "idle"]
              /\ local' = [local EXCEPT ![p] = NoLocal]
              /\ Respond(local[p].req, ActivateFailure(r.error))
         ELSE /\ pc' = [pc EXCEPT ![p] = "activate_write"]
              /\ local' = [local EXCEPT ![p] = r.l]
              /\ UNCHANGED <<resp, history, recording>>
    /\ UNCHANGED <<licenses, activations, verification_log, now, ticks, calls>>

\* the write transaction: the statements from the first UPDATE/INSERT to commit
ActivateCommit(p) ==
    /\ pc[p] = "activate_write"
    /\ activations' = ActivateActivations(activations, local[p], now)
    /\ licenses' = ActivateLicenses(licenses, local[p], now)
    /\ Respond(local[p].req, ActivateSuccess(local[p], now))
    /\ pc' = [pc EXCEPT ![p] = "idle"]
    /\ local' = [local EXCEPT ![p] = NoLocal]
    /\ UNCHANGED <<verification_log, now, ticks, calls>>

(***************************************************************************)
(* verify                                                                  *)
(***************************************************************************)
\* a join that takes the license's activation on any machine
JoinedActivationAnyMachine(acts, license_key, machine_id) ==
    FetchOne(acts, {i \in DOMAIN acts : Upper(license_key) = Upper(acts[i].license_key)})

\* SELECT l.*, a.status, a.activated_at FROM licenses l LEFT JOIN activations a
\*   ON UPPER(l.license_key) = UPPER(a.license_key) AND a.machine_id = ?
\*   WHERE UPPER(l.license_key) = UPPER(?); fetchone().
\* The activation joined to the license in the first result row: SQLite scans
\* activations in rowid order, so it is the first activation the ON clause takes.
JoinedActivation(acts, license_key, machine_id) ==
    FetchOne(acts, {i \in DOMAIN acts : /\ Upper(license_key) = Upper(acts[i].license_key)
                                        /\ acts[i].machine_id = machine_id})

\* an expiry check that counts the expiry instant itself as expired
IsExpiredInclusive(billing_type, expires_at, t) ==
    billing_type = "annual" /\ ~IsNull(expires_at) /\ t >= Val(expires_at)

\* billing_type == 'annual' and expires_at and utcnow() > fromisoformat(expires_at)
IsExpired(billing_type, expires_at, t) ==
    billing_type = "annual" /\ ~IsNull(expires_at) /\ t > Val(expires_at)

\* UPDATE activations SET last_verified = ? WHERE license_key = ? AND machine_id = ?
TouchVerified(acts, key, machine_id, t) ==
    [i \in DOMAIN acts |->
        IF acts[i].license_key = key /\ acts[i].machine_id = machine_id
        THEN [acts[i] EXCEPT !.last_verified = Some(t)]
        ELSE acts[i]]

\* a log that keeps only its newest row
InsertLogOverwrite(log, key, machine_id, t, result, message) ==
    <<[license_key |-> key, machine_id |-> machine_id, timestamp |-> t,
       result |-> result, message |-> message]>>

\* INSERT INTO verification_log (license_key, machine_id, timestamp, result, message)
InsertLog(log, key, machine_id, t, result, message) ==
    Append(log, [license_key |-> key, machine_id |-> machine_id, timestamp |-> t,
                 result |-> result, message |-> message])

\* a maintenance date taken from the license's expiry for every billing type
VerifyMaintenanceFromExpiry(billing_type, activated_at, expires_at) == expires_at

\* calculate maintenance expiry
VerifyMaintenance(billing_type, activated_at, expires_at) ==
    IF billing_type = "one-time" /\ ~IsNull(activated_at)
    THEN Some(Val(activated_at) + Days365)
    ELSE expires_at

VerifyFailure(error) == [op |-> "verify", valid |-> FALSE, error |-> error]

\* the SELECT of verify and the checks on the row it returns; an unknown key
\* goes on to the write transaction that logs it
VerifyRead(lics, acts, req, t) ==
    LET row == SelectLicense(lics, req.key) IN
    IF IsNull(row) THEN Proceed([op |-> "verify", req |-> req, found |-> FALSE])
    ELSE LET lic == Val(row)
             act == JoinedActivation(acts, lic.license_key, req.machine_id) IN
         IF lic.status # "active" THEN Fail("LicenseNotActive")
         ELSE IF IsNull(act) THEN Fail("NotActivatedHere")
         ELSE IF IsExpired(lic.billing_type, lic.expires_at, t) THEN Fail("Expired")
         ELSE Proceed([op |-> "verify", req |-> req, found |-> TRUE,
                       type |-> lic.type, tier |-> lic.tier,
                       billing_type |-> lic.billing_type,
                       expires_at |-> lic.expires_at,
                       activation_status |-> Val(act).status,
                       activated_at |-> Some(Val(act).activated_at)])

\* the write transaction of verify on the activations table
VerifyActivations(acts, l, t) ==
    IF l.found THEN TouchVerified(acts, l.req.key, l.req.machine_id, t) ELSE acts

\* the write transaction of verify on the verification_log table
VerifyLog(log, l, t) ==
    IF l.found
    THEN InsertLog(log, l.req.key, l.req.machine_id, t, "success", l.tier)
    ELSE InsertLog(log, l.req.key, l.req.machine_id, t, "failed", "Invalid key")

\* the response of verify after its write transaction
VerifyResponse(l) ==
    IF l.found
    THEN [op |-> "verify", valid |-> TRUE, error |-> "none",
          key |-> l.req.key, machine_id |-> l.req.machine_id,
          type |-> l.type, tier |-> l.tier, billing_type |-> l.billing_type,
          expires |-> l.expires_at,
          maintenance_expires |->
              VerifyMaintenance(l.billing_type, l.activated_at, l.expires_at)]
    ELSE VerifyFailure("InvalidKey")

\* the request arrives; the handler reads the joined row and decides
VerifyLookup(p, key, machine_id) ==
    /\ pc[p] = "idle"
    /\ calls < MaxCalls
    /\ calls' = calls + 1
    /\ LET req == [op |-> "verify", key |-> key, machine_id |-> machine_id]
           r == VerifyRead(licenses, activations, req, now) IN
         IF r.fail
         THEN /\ Respond(req, VerifyFailure(r.error))
              /\ UNCHANGED <<pc, local>>
         ELSE /\ pc' = [pc EXCEPT ![p] = "verify_write"]
              /\ local' = [local EXCEPT ![p] = r.l]
              /\ UNCHANGED <<resp, history, recording>>
    /\ UNCHANGED <<licenses, activations, verification_log, now, ticks>>

\* the write transaction of verify: the log row of an invalid key, or the
\* last_verified update and the log row of a success
VerifyCommit(p) ==
    /\ pc[p] = "verify_write"
    /\ activations' = VerifyActivations(activations, local[p], now)
    /\ verification_log' = VerifyLog(verification_log, local[p], now)
    /\ Respond(local[p].req, VerifyResponse(local[p]))
    /\ pc' = [pc EXCEPT ![p] = "idle"]
    /\ local' = [local EXCEPT ![p] = NoLocal]
    /\ UNCHANGED <<licenses, now, ticks, calls>>

(***************************************************************************)
(* deactivate                                                              *)
(***************************************************************************)
\* SELECT id FROM activations WHERE UPPER(license_key) = UPPER(?)
\*   AND machine_id = ? AND status = 'active'
SelectActive(acts, key, machine_id) ==
    FetchOne(acts, {i \in DOMAIN acts : /\ Upper(acts[i].license_key) = Upper(key)
                                        /\ acts[i].machine_id = machine_id
                                        /\ acts[i].status = "active"})

\* UPDATE activations SET status = 'deactivated'
\*   WHERE UPPER(license_key) = UPPER(?) AND machine_id = ?
MarkDeactivated(acts, key, machine_id) ==
    [i \in DOMAIN acts |->
        IF Upper(acts[i].license_key) = Upper(key) /\ acts[i].machine_id = machine_id
        THEN [acts[i] EXCEPT !.status = "deactivated"]
        ELSE acts[i]]

\* UPDATE licenses SET current_activations = current_activations - 1
\*   WHERE license_key = ?
DecrementActivations(lics, key) ==
    [i \in DOMAIN lics |->
        IF lics[i].license_key = key
        THEN [lics[i] EXCEPT !.current_activations = @ - 1]
        ELSE lics[i]]

DeactivateFailure(error) == [op |-> "deactivate", success |-> FALSE, error |-> error]

\* the SELECT of deactivate and the check on its result
DeactivateRead(acts, req) ==
    IF IsNull(SelectActive(acts, req.key, req.machine_id))
    THEN Fail("NoActiveActivation")
    ELSE Proceed([op |-> "deactivate", req |-> req])

\* the success response of deactivate
DeactivateSuccess(l) ==
    [op |-> "deactivate", success |-> TRUE, error |-> "none",
     key |-> l.req.key, machine_id |-> l.req.machine_id]

\* the request arrives; the handler looks for an active activation row
DeactivateLookup(p, key, machine_id) ==
    /\ pc[p] = "idle"
    /\ calls < MaxCalls
    /\ calls' = calls + 1
    /\ LET req == [op |-> "deactivate", key |-> key, machine_id |-> machine_id]
           r == DeactivateRead(activations, req) IN
         IF r.fail
         THEN /\ Respond(req, DeactivateFailure(r.error))
              /\ UNCHANGED <<pc, local>>
         ELSE /\ pc' = [pc EXCEPT ![p] = "deactivate_write"]
              /\ local' = [local EXCEPT ![p] = r.l]
              /\ UNCHANGED <<resp, history, recording>>
    /\ UNCHANGED <<licenses, activations, verification_log, now, ticks>>

\* the write transaction of deactivate
DeactivateCommit(p) ==
    /\ pc[p] = "deactivate_write"
    /\ activations' = MarkDeactivated(activations, local[p].req.key, local[p].req.machine_id)
    /\ licenses' = DecrementActivations(licenses, local[p].req.key)
    /\ Respond(local[p].req, DeactivateSuccess(local[p]))
    /\ pc' = [pc EXCEPT ![p] = "idle"]
    /\ local' = [local EXCEPT ![p] = NoLocal]
    /\ UNCHANGED <<verification_log, now, ticks, calls>>

(***************************************************************************)
(* A write transaction that raises (sqlite3.OperationalError: the database *)
(* stays locked past the busy timeout, the disk fails): the handler's      *)
(* except branch answers 500 and conn.close() discards the transaction.    *)
(***************************************************************************)
WritePcs == {"activate_write", "verify_write", "deactivate_write"}

InternalError(op) ==
    [op |-> op, success |-> FALSE, valid |-> FALSE, error |-> "PersistenceError"]

\* the tables as a connection sees them
Tables(lics, acts, log) ==
    [licenses |-> lics, activations |-> acts, verification_log |-> log]

\* the statements the write transaction of activate runs, in their order
ActivateStatements(l, t) ==
    (IF l.existing THEN <<"touch">> ELSE <<"insert", "increment">>)
    \o (IF ShouldSetExpiry(l.expires_at, LicenseExpires(l.billing_type, t))
        THEN <<"expiry">> ELSE <<>>)

\* the statements the write transaction of verify runs
VerifyStatements(l) == IF l.found THEN <<"verified", "log">> ELSE <<"log">>

\* the statements the write transaction of deactivate runs
DeactivateStatements == <<"deactivate", "decrement">>

\* the statements of the write transaction handler state l is about to run
Statements(l, t) ==
    CASE l.op = "activate" -> ActivateStatements(l, t)
      [] l.op = "verify" -> VerifyStatements(l)
      [] l.op = "deactivate" -> DeactivateStatements

\* c.execute of one statement inside the transaction
Execute(tb, l, t, stmt) ==
    CASE stmt = "touch" ->
           [tb EXCEPT !.activations =
               TouchActivation(@, l.req.key, l.req.machine_id, l.req.ip, t)]
      [] stmt = "insert" ->
           [tb EXCEPT !.activations =
               InsertActivation(@, l.req.key, l.req.machine_id, l.req.ip, t)]
      [] stmt = "increment" ->
           [tb EXCEPT !.licenses = IncrementActivations(@, l.req.key, t)]
      [] stmt = "expiry" ->
           [tb EXCEPT !.licenses =
               SetExpiry(@, l.req.key, LicenseExpires(l.billing_type, t))]
      [] stmt = "verified" ->
           [tb EXCEPT !.activations = TouchVerified(@, l.req.key, l.req.machine_id, t)]
      [] stmt = "log" -> [tb EXCEPT !.verification_log = VerifyLog(@, l, t)]
      [] stmt = "deactivate" ->
           [tb EXCEPT !.activations = MarkDeactivated(@, l.req.key, l.req.machine_id)]
      [] stmt = "decrement" ->
           [tb EXCEPT !.licenses = DecrementActivations(@, l.req.key)]

\* the tables inside the connection after the first k statements of its
\* write transaction
RECURSIVE Work(_, _, _, _)
Work(tb, l, t, k) ==
    IF k = 0 THEN tb
    ELSE Execute(Work(tb, l, t, k - 1), l, t, Statements(l, t)[k])

\* a connection that keeps what it wrote when it closes without a commit
KeepWork(committed, work) == work

\* conn.close() without conn.commit(): SQLite rolls the transaction back
Rollback(committed, work) == committed

\* the exception is raised after k statements of the transaction, k from
\* none to all of them (all: by conn.commit() itself)
StorageFailure(p) ==
    /\ pc[p] \in WritePcs
    /\ \E k \in 0..Len(Statements(local[p], now)) :
         LET tb == Rollback(Tables(licenses, activations, verification_log),
                            Work(Tables(licenses, activations, verification_log),
                                 local[p], now, k)) IN
         /\ licenses' = tb.licenses
         /\ activations' = tb.activations
         /\ verification_log' = tb.verification_log
    /\ Respond(local[p].req, InternalError(local[p].op))
    /\ pc' = [pc EXCEPT ![p] = "idle"]
    /\ local' = [local EXCEPT ![p] = NoLocal]
    /\ UNCHANGED <<now, ticks, calls>>

(***************************************************************************)
(* The server.                                                             *)
(***************************************************************************)
Next ==
    \/ Tick
    \/ \E p \in Procs, email \in CreateEmails, tier \in Tiers,
          max_activations \in MaxActivationChoices :
          CreateLicense(p, email, tier, max_activations)
    \/ \E p \in Procs, key \in CallerKeys, email \in CallerEmails,
          machine_id \in MachineIds, ip \in IPs :
          ActivateLookup(p, key, email, machine_id, ip)
    \/ \E p \in Procs : ActivateSelectExisting(p)
    \/ \E p \in Procs : ActivateCommit(p)
    \/ \E p \in Procs, key \in CallerKeys, machine_id \in MachineIds :
          VerifyLookup(p, key, machine_id)
    \/ \E p \in Procs : VerifyCommit(p)
    \/ \E p \in Procs, key \in CallerKeys, machine_id \in MachineIds :
          DeactivateLookup(p, key, machine_id)
    \/ \E p \in Procs : DeactivateCommit(p)
    \/ \E p \in Procs : StorageFailure(p)

Spec == Init /\ [][Next]_vars

\* what an admin can send as tier: the five tiers of the product and two
\* strings that are none of them (admin_create passes the string on unchecked)
AllTiers == {"free", "pro_lifetime", "pro_annual", "enterprise_lifetime",
             "enterprise_annual", "team_pro", "trial"}

\* the admin endpoint alone: licenses are created, with any tier, and time
\* passes
NextCreate ==
    \/ Tick
    \/ \E p \in Procs, email \in CreateEmails, tier \in AllTiers,
          max_activations \in MaxActivationChoices :
          CreateLicense(p, email, tier, max_activations)

SpecCreate == Init /\ [][NextCreate]_vars

\* what a request to /activate can carry: the fields of a well-formed
\* request, a missing field (data.get's default '') and a blank one
RequestKeys == CallerKeys \cup {""}
RequestEmails == CallerEmails \cup {""}
RequestMachineIds == MachineIds \cup {" "}
\* the license states other than active
InactiveStatuses == {"suspended", "revoked"}

\* an administrator suspends or revokes a license
AdminSetStatus(i, status) ==
    /\ i \in DOMAIN licenses
    /\ licenses[i].status = "active"
    /\ licenses' = [licenses EXCEPT ![i].status = status]
    /\ UNCHANGED <<activations, verification_log, pc, local, resp, now, ticks, calls,
                   history, recording>>

\* licenses are created, suspended or revoked, and activated with requests
\* of every shape
NextActivate ==
    \/ \E p \in Procs, email \in CreateEmails, tier \in Tiers,
          max_activations \in MaxActivationChoices :
          CreateLicense(p, email, tier, max_activations)
    \/ \E i \in 1..Cardinality(GenKeys), status \in InactiveStatuses :
          AdminSetStatus(i, status)
    \/ \E p \in Procs, key \in RequestKeys, email \in RequestEmails,
          machine_id \in RequestMachineIds, ip \in IPs :
          ActivateLookup(p, key, email, machine_id, ip)
    \/ \E p \in Procs : ActivateSelectExisting(p)
    \/ \E p \in Procs : ActivateCommit(p)

SpecActivate == Init /\ [][NextActivate]_vars

\* the server with the answered requests kept in history
SpecRecording == InitRecording /\ [][Next]_vars

(***************************************************************************)
(* The handlers run one at a time: every step of a call with no step of    *)
(* another call in between.                                                *)
(***************************************************************************)
Outcome(lics, acts, r) == [licenses |-> lics, activations |-> acts, resp |-> r]

\* create_license as one step
CreateSerial(lics, acts, req, t) ==
    Outcome(CreateLicenses(lics, req, t), acts, CreateResponse(lics, req))

\* activate as one step
ActivateSerial(lics, acts, req, t) ==
    LET a == ActivateReadLicense(lics, req) IN
    IF a.fail THEN Outcome(lics, acts, ActivateFailure(a.error))
    ELSE LET b == ActivateReadExisting(acts, a.l) IN
         IF b.fail THEN Outcome(lics, acts, ActivateFailure(b.error))
         ELSE Outcome(ActivateLicenses(lics, b.l, t), ActivateActivations(acts, b.l, t),
                      ActivateSuccess(b.l, t))

\* the whole of activate as one step, the check of the required fields
\* included
ActivateCall(lics, acts, req, t) ==
    IF MissingFields(req) THEN Outcome(lics, acts, ActivateFailure("ValidationError"))
    ELSE ActivateSerial(lics, acts, req, t)

\* deactivate as one step
DeactivateSerial(lics, acts, req, t) ==
    LET a == DeactivateRead(acts, req) IN
    IF a.fail THEN Outcome(lics, acts, DeactivateFailure(a.error))
    ELSE Outcome(DecrementActivations(lics, req.key),
                 MarkDeactivated(acts, req.key, req.machine_id),
                 DeactivateSuccess(a.l))

\* verify as one step
VerifySerial(lics, acts, log, req, t) ==
    LET a == VerifyRead(lics, acts, req, t) IN
    IF a.fail
    THEN [activations |-> acts, verification_log |-> log, resp |-> VerifyFailure(a.error)]
    ELSE [activations |-> VerifyActivations(acts, a.l, t),
          verification_log |-> VerifyLog(log, a.l, t),
          resp |-> VerifyResponse(a.l)]

(***************************************************************************)
(* Properties.                                                             *)
(***************************************************************************)
\* the activation rows that reference a license, keys compared case-insensitively
RowsOf(lic) ==
    {i \in DOMAIN activations : Upper(activations[i].license_key) = Upper(lic.license_key)}
\* the number of its rows with status = active
ActiveCount(lic) ==
    Cardinality({i \in RowsOf(lic) : activations[i].status = "active"})

\* no deactivate call has been received
OnlyActivate ==
    /\ \A p \in Procs : local[p].op # "deactivate"
    /\ \A i \in DOMAIN history : history[i].req.op # "deactivate"

\* C1: as long as activate is the only lifecycle call made (in sequence or
\* interleaved, for any machine ids), no license has current_activations
\* above max_activations.
C1_CounterWithinLimit ==
    OnlyActivate =>
        \A i \in DOMAIN licenses :
            licenses[i].current_activations <= licenses[i].max_activations

\* C2: in every reachable state each license's current_activations equals the
\* number of active activation rows that reference it, keys compared
\* case-insensitively.
C2_CounterEqualsActiveRows ==
    \A i \in DOMAIN licenses : licenses[i].current_activations = ActiveCount(licenses[i])

\* C3: the limit is never oversold: the number of active activation rows that
\* reference a license never exceeds its max_activations, whatever letter
\* case the callers use for the key.
C3_ActiveRowsWithinLimit ==
    \A i \in DOMAIN licenses : ActiveCount(licenses[i]) <= licenses[i].max_activations

\* C4: current_activations is never negative.
C4_CounterNonNegative ==
    \A i \in DOMAIN licenses : licenses[i].current_activations >= 0

\* C5: there is at most one activation row per (license, machine_id), keys
\* compared case-insensitively.
C5_OneRowPerMachine ==
    \A i, j \in DOMAIN activations :
        (/\ Upper(activations[i].license_key) = Upper(activations[j].license_key)
         /\ activations[i].machine_id = activations[j].machine_id) => i = j

\* what a call's answer says: the operation and its success or its error
Verdict(r) == <<r.op, r.error>>

\* what a license row says about its activations
LicenseView(lics) ==
    [i \in DOMAIN lics |->
        [license_key |-> lics[i].license_key,
         current_activations |-> lics[i].current_activations,
         activated |-> ~IsNull(lics[i].activated_at),
         expiring |-> ~IsNull(lics[i].expires_at)]]

\* how many activation rows there are for each key, machine and status
ActivationView(acts) ==
    [k \in CallerKeys, m \in MachineIds, st \in {"active", "deactivated"} |->
        Cardinality({i \in DOMAIN acts : /\ acts[i].license_key = k
                                         /\ acts[i].machine_id = m
                                         /\ acts[i].status = st})]

\* the answered create, activate and deactivate calls (a call answered with
\* PersistenceError wrote nothing)
Answered ==
    SelectSeq(history, LAMBDA e : /\ e.req.op \in {"create", "activate", "deactivate"}
                                  /\ e.resp.error # "PersistenceError")

\* a call run as one step
SerialCall(lics, acts, req, t) ==
    CASE req.op = "create" -> CreateSerial(lics, acts, req, t)
      [] req.op = "activate" -> ActivateSerial(lics, acts, req, t)
      [] req.op = "deactivate" -> DeactivateSerial(lics, acts, req, t)

\* the calls of entries run one at a time in that order, from the empty
\* tables: whether every call gets the answer it got, and the tables at the end
RECURSIVE SerialRun(_, _, _)
SerialRun(lics, acts, entries) ==
    IF entries = <<>> THEN [same |-> TRUE, licenses |-> lics, activations |-> acts]
    ELSE LET e == Head(entries)
             r == SerialCall(lics, acts, e.req, e.t) IN
         IF Verdict(r.resp) # Verdict(e.resp)
         THEN [same |-> FALSE, licenses |-> lics, activations |-> acts]
         ELSE SerialRun(r.licenses, r.activations, Tail(entries))

\* C6: the calls answered so far are equivalent to some one-at-a-time
\* execution of the same calls: there is an order in which, run one at a
\* time, every call gets the answer it got and the licenses and activations
\* tables end as they are (timestamps aside).
C6_Serializable ==
    LET n == Len(Answered) IN
    \E order \in Permutations(1..n) :
        LET run == SerialRun(<<>>, <<>>, [i \in 1..n |-> Answered[order[i]]]) IN
        /\ run.same
        /\ LicenseView(run.licenses) = LicenseView(licenses)
        /\ ActivationView(run.activations) = ActivationView(activations)


\* two activations tables with the same rows, last_verified and ip_address aside
SameRowsButTouch(a, b) ==
    /\ Len(a) = Len(b)
    /\ \A i \in DOMAIN a :
          [a[i] EXCEPT !.last_verified = Null, !.ip_address = ""] =
          [b[i] EXCEPT !.last_verified = Null, !.ip_address = ""]

\* no call is in flight
Quiet == \A p \in Procs : pc[p] = "idle"

\* C7: activate is idempotent per (key, machine_id): in every reachable state
\* with no call in flight, when activate(key, email, machine_id) succeeds, the
\* same call made right after it (at that time or later) succeeds too and
\* leaves every license's current_activations and the activation rows as they
\* are, only last_verified and ip_address aside, also when the counter is at
\* the limit.
C7_ActivateIdempotent ==
    Quiet =>
    \A key \in CallerKeys, email \in CallerEmails, machine_id \in MachineIds, ip \in IPs :
        LET req == [op |-> "activate", key |-> key, email |-> email,
                    machine_id |-> machine_id, ip |-> ip]
            first == ActivateSerial(licenses, activations, req, now) IN
        first.resp.success =>
            \A d \in {0} \cup TickSteps :
                LET second == ActivateSerial(first.licenses, first.activations,
                                             req, now + d) IN
                /\ second.resp.success
                /\ \A i \in DOMAIN first.licenses :
                      second.licenses[i].current_activations =
                          first.licenses[i].current_activations
                /\ SameRowsButTouch(second.activations, first.activations)

\* the server has answered a repeated activate with success, no call is in
\* flight, and the license is at its limit
C7_Witness ==
    /\ resp.op = "activate" /\ resp.success /\ resp.existing
    /\ Quiet
    /\ \E i \in DOMAIN licenses :
          /\ licenses[i].license_key = resp.key
          /\ licenses[i].current_activations = licenses[i].max_activations
          /\ ActiveCount(licenses[i]) = 1

\* the errors verify answers with
VerifyErrors == {"InvalidKey", "LicenseNotActive", "NotActivatedHere", "Expired"}

\* C8: every verify attempt appends exactly one verification_log row,
\* whether it ends in success or in one of its failures.
C8_VerifyAlwaysLogs ==
    [][(/\ Len(history') = Len(history) + 1
        /\ history'[Len(history')].req.op = "verify"
        /\ history'[Len(history')].resp.error \in VerifyErrors \cup {"none"})
       => Len(verification_log') = Len(verification_log) + 1]_vars

\* C9: the verification log is append-only: no step changes or removes a row
\* that is there, the log never gets shorter, and the only step that adds a
\* row is the write transaction of a verify.
C9_LogAppendOnly ==
    [][/\ Len(verification_log') >= Len(verification_log)
       /\ \A i \in DOMAIN verification_log : verification_log'[i] = verification_log[i]
       /\ verification_log' # verification_log =>
             \E p \in Procs : /\ local[p].op = "verify"
                              /\ pc[p] = "verify_write"
                              /\ pc'[p] = "idle"]_vars

\* a log row is there and an activate was answered with success after it
C9_Witness ==
    /\ Len(verification_log) >= 1
    /\ resp.op = "activate" /\ resp.success
    /\ Len(activations) >= 1

\* C10: expires_at is first-write-wins: once a license's expires_at holds a
\* value, no step changes it.
C10_ExpiresFirstWriteWins ==
    [][\A i \in DOMAIN licenses :
          ~IsNull(licenses[i].expires_at) =>
              licenses'[i].expires_at = licenses[i].expires_at]_vars

\* handler p commits the write transaction of a new activation in this step
NewActivationCommitted(p) ==
    /\ pc[p] = "activate_write" /\ ~local[p].existing
    /\ pc'[p] = "idle"
    /\ resp'.op = "activate" /\ resp'.error = "none"

\* C11: a license's activated_at is set by its first successful new
\* activation (whatever spelling of the key the caller uses) and, once set,
\* no step changes it.
C11_ActivatedAtSetOnce ==
    [][/\ \A i \in DOMAIN licenses :
             ~IsNull(licenses[i].activated_at) =>
                 licenses'[i].activated_at = licenses[i].activated_at
       /\ \A p \in Procs :
             NewActivationCommitted(p) =>
                 \A i \in DOMAIN licenses :
                     Upper(licenses[i].license_key) = Upper(local[p].req.key) =>
                         ~IsNull(licenses'[i].activated_at)]_vars

\* the spellings a caller can use for a stored key
SpellingsOf(license_key) == {k \in CallerKeys : Upper(k) = Upper(license_key)}

\* C12: a license with billing_type one-time has expires_at NULL in every
\* reachable state, and verify never answers Expired for it, whatever the
\* machine, the spelling of the key and the time.
C12_OneTimeNeverExpires ==
    [](\A i \in DOMAIN licenses :
        licenses[i].billing_type = "one-time" =>
            /\ IsNull(licenses[i].expires_at)
            /\ \A key \in SpellingsOf(licenses[i].license_key), machine_id \in MachineIds :
                  VerifySerial(licenses, activations, verification_log,
                               [op |-> "verify", key |-> key, machine_id |-> machine_id],
                               now).resp.error # "Expired")

\* a one-time license was activated more than 365 days ago and verify has
\* just answered valid for it
C12_Witness ==
    /\ resp.op = "verify" /\ resp.error = "none" /\ resp.billing_type = "one-time"
    /\ \E i \in DOMAIN licenses :
          /\ licenses[i].billing_type = "one-time"
          /\ ~IsNull(licenses[i].activated_at)
          /\ now > Val(licenses[i].activated_at) + Days365

\* there is no activation row for the license on the machine
NoRowFor(lic, machine_id) ==
    \A j \in RowsOf(lic) : activations[j].machine_id # machine_id

\* C13: when a license has current_activations equal to max_activations and
\* no activation row for machine_id, activate(key, email, machine_id) with a
\* matching email, run from that state, fails with ActivationLimitReached,
\* inserts no activation row and leaves the licenses table as it is.
C13_LimitRefusesNewMachine ==
    [](Quiet =>
    \A i \in DOMAIN licenses :
        \A key \in SpellingsOf(licenses[i].license_key), email \in CallerEmails,
           machine_id \in MachineIds, ip \in IPs :
            (/\ licenses[i].current_activations = licenses[i].max_activations
             /\ ~EmailMismatch(email, licenses[i].email)
             /\ NoRowFor(licenses[i], machine_id)) =>
                LET a == ActivateSerial(licenses, activations,
                                        [op |-> "activate", key |-> key, email |-> email,
                                         machine_id |-> machine_id, ip |-> ip], now) IN
                /\ a.resp = ActivateFailure("ActivationLimitReached")
                /\ a.activations = activations
                /\ a.licenses = licenses)

\* a license with max_activations = 1 is active on M1 only, and the server
\* has just refused an activate with ActivationLimitReached
C13_Witness ==
    /\ resp.op = "activate" /\ resp.error = "ActivationLimitReached"
    /\ Quiet
    /\ \E i \in DOMAIN licenses :
          /\ licenses[i].max_activations = 1
          /\ licenses[i].current_activations = 1
          /\ ~NoRowFor(licenses[i], "M1")
          /\ NoRowFor(licenses[i], "M2")

\* handler p commits the write transaction of a deactivate in this step
DeactivateCommitted(p) ==
    /\ pc[p] = "deactivate_write"
    /\ pc'[p] = "idle"
    /\ resp'.op = "deactivate" /\ resp'.error = "none"

\* C14: a successful deactivate(key, machine_id) sets the machine's
\* activation row of that license to deactivated and lowers the license's
\* current_activations by exactly 1, whatever spelling of the key the caller
\* uses, so that the slot is free again.
C14_DeactivateFreesSlot ==
    [][\A p \in Procs :
          DeactivateCommitted(p) =>
              \A i \in DOMAIN licenses :
                  Upper(licenses[i].license_key) = Upper(local[p].req.key) =>
                      /\ licenses'[i].current_activations =
                             licenses[i].current_activations - 1
                      /\ \A j \in DOMAIN activations' :
                            (/\ Upper(activations'[j].license_key) =
                                   Upper(licenses[i].license_key)
                             /\ activations'[j].machine_id = local[p].req.machine_id) =>
                                activations'[j].status = "deactivated"]_vars

\* what verify tells its caller: the valid flag, the error, and on success
\* the license metadata and the expiry fields
VerifyResult(r) ==
    IF r.error = "none"
    THEN <<r.valid, r.error, r.type, r.tier, r.billing_type, r.expires,
           r.maintenance_expires>>
    ELSE <<r.valid, r.error>>

\* C15: from the same state, verify called with a key that differs from the
\* stored key only in letter case returns the same result (valid flag,
\* license metadata, expiry fields, error) as verify called with the key as
\* stored.
C15_VerifyCaseInsensitive ==
    [](\A i \in DOMAIN licenses :
        \A key \in SpellingsOf(licenses[i].license_key) \ {licenses[i].license_key},
           machine_id \in MachineIds :
            VerifyResult(VerifySerial(licenses, activations, verification_log,
                                      [op |-> "verify", key |-> key,
                                       machine_id |-> machine_id], now).resp)
            = VerifyResult(VerifySerial(licenses, activations, verification_log,
                                        [op |-> "verify",
                                         key |-> licenses[i].license_key,
                                         machine_id |-> machine_id], now).resp))

\* verify has just answered valid to a caller that spelled the stored key in
\* lower case
C15_Witness ==
    /\ resp.op = "verify" /\ resp.error = "none"
    /\ \E i \in DOMAIN licenses :
          /\ resp.key # licenses[i].license_key
          /\ resp.key \in SpellingsOf(licenses[i].license_key)

\* C16: a successful activate for a (license, machine_id) with no activation
\* row has the same persisted effects whatever letter case the caller uses
\* for the key: one active activation row is inserted, current_activations
\* rises by exactly 1, activated_at is set if it was not, and for an annual
\* license expires_at is set if it was not.
C16_NewActivationEffects ==
    [][\A p \in Procs, i \in DOMAIN licenses :
          (/\ NewActivationCommitted(p)
           /\ Upper(licenses[i].license_key) = Upper(local[p].req.key)
           /\ NoRowFor(licenses[i], local[p].req.machine_id)) =>
              LET n == Len(activations') IN
              /\ n = Len(activations) + 1
              /\ Upper(activations'[n].license_key) = Upper(licenses[i].license_key)
              /\ activations'[n].machine_id = local[p].req.machine_id
              /\ activations'[n].status = "active"
              /\ licenses'[i].current_activations =
                     licenses[i].current_activations + 1
              /\ ~IsNull(licenses'[i].activated_at)
              /\ licenses[i].billing_type = "annual" =>
                     ~IsNull(licenses'[i].expires_at)]_vars

\* C17: for an existing license with status active, verify(key, machine_id)
\* made while no activate for that machine_id has been carried out answers
\* valid = false with error NotActivatedHere and writes nothing, whatever
\* activations the license has on other machines.
C17_VerifyBeforeActivate ==
    [](\A i \in DOMAIN licenses, machine_id \in MachineIds :
        (licenses[i].status = "active" /\ NoRowFor(licenses[i], machine_id)) =>
            \A key \in SpellingsOf(licenses[i].license_key) :
                LET v == VerifySerial(licenses, activations, verification_log,
                                      [op |-> "verify", key |-> key,
                                       machine_id |-> machine_id], now) IN
                /\ v.resp = VerifyFailure("NotActivatedHere")
                /\ v.activations = activations)

\* a license is active on M1 and has no activation on M2, and verify has
\* just answered NotActivatedHere
C17_Witness ==
    /\ resp.op = "verify" /\ resp.error = "NotActivatedHere"
    /\ \E i \in DOMAIN licenses :
          /\ \E j \in RowsOf(licenses[i]) : /\ activations[j].machine_id = "M1"
                                            /\ activations[j].status = "active"
          /\ NoRowFor(licenses[i], "M2")

\* C18: for an active annual license activated on machine_id, verify answers
\* valid = false with error Expired exactly when now > expires_at (strictly:
\* at now = expires_at, and while expires_at is not set, it answers valid),
\* and a verify that answers Expired leaves last_verified as it is.
C18_ExpiredStrictlyAfter ==
    [](\A i \in DOMAIN licenses, machine_id \in MachineIds :
        (/\ licenses[i].status = "active"
         /\ licenses[i].billing_type = "annual"
         /\ ~NoRowFor(licenses[i], machine_id)) =>
            \A key \in SpellingsOf(licenses[i].license_key) :
                LET v == VerifySerial(licenses, activations, verification_log,
                                      [op |-> "verify", key |-> key,
                                       machine_id |-> machine_id], now)
                    past == /\ ~IsNull(licenses[i].expires_at)
                            /\ now > Val(licenses[i].expires_at) IN
                /\ past => /\ v.resp = VerifyFailure("Expired")
                           /\ v.activations = activations
                /\ ~past => v.resp.valid /\ v.resp.error = "none")

\* an annual license is one day past its expires_at and verify has just
\* answered Expired; the activation's last_verified is still the time of
\* the activation
C18_Witness ==
    /\ resp.op = "verify" /\ resp.error = "Expired"
    /\ \E i \in DOMAIN licenses :
          /\ licenses[i].billing_type = "annual"
          /\ licenses[i].expires_at = Some(now - 1)
          /\ \E j \in RowsOf(licenses[i]) :
                activations[j].last_verified = Some(activations[j].activated_at)

\* the activation rows of the license on the machine
RowsOn(lic, machine_id) ==
    {j \in RowsOf(lic) : activations[j].machine_id = machine_id}

\* C19: for a one-time (lifetime) license activated on a machine, verify on
\* that machine answers valid = true, expires = null and maintenance_expires
\* equal to that activation's activated_at plus 365 days, whenever it is
\* called.
C19_LifetimeMaintenance ==
    [](\A i \in DOMAIN licenses, machine_id \in MachineIds :
        (/\ licenses[i].status = "active"
         /\ licenses[i].billing_type = "one-time") =>
            \A j \in RowsOn(licenses[i], machine_id) :
                (RowsOn(licenses[i], machine_id) = {j} /\ activations[j].status = "active") =>
                    \A key \in SpellingsOf(licenses[i].license_key) :
                        LET v == VerifySerial(licenses, activations, verification_log,
                                              [op |-> "verify", key |-> key,
                                               machine_id |-> machine_id], now) IN
                        /\ v.resp.valid /\ v.resp.error = "none"
                        /\ v.resp.expires = Null
                        /\ v.resp.maintenance_expires =
                               Some(activations[j].activated_at + Days365))

\* verify has just answered valid for a lifetime license more than 365 days
\* after its activation, with no expiry and the maintenance date 365 days
\* after the activation
C19_Witness ==
    /\ resp.op = "verify" /\ resp.error = "none" /\ resp.billing_type = "one-time"
    /\ resp.expires = Null
    /\ \E j \in DOMAIN activations :
          /\ activations[j].machine_id = resp.machine_id
          /\ resp.maintenance_expires = Some(activations[j].activated_at + Days365)
          /\ now > activations[j].activated_at + Days365

\* C20: a storage failure at any point inside the write transaction of an
\* activate or a deactivate leaves none of the call's writes: the licenses
\* and activations tables are as before the call.  A call that is not
\* interrupted applies all of its writes: for deactivate the row status
\* change and the counter decrement, for activate the row insert, the
\* counter increment with activated_at, and expires_at.
C20_AllOrNothing ==
    [][\A p \in Procs :
          (/\ pc[p] \in {"activate_write", "deactivate_write"}
           /\ pc'[p] = "idle") =>
              LET before == Tables(licenses, activations, verification_log)
                  all == Work(before, local[p], now, Len(Statements(local[p], now))) IN
              IF resp'.error = "PersistenceError"
              THEN licenses' = licenses /\ activations' = activations
              ELSE licenses' = all.licenses /\ activations' = all.activations]_vars

\* a deactivate was answered with PersistenceError: the activation row is
\* still active and the counter still counts it
C20_Witness ==
    /\ resp.op = "deactivate" /\ resp.error = "PersistenceError"
    /\ Quiet
    /\ \E i \in DOMAIN licenses :
          /\ licenses[i].current_activations = 1
          /\ ActiveCount(licenses[i]) = 1

\* a create call is received and answered in this step
CreateAnswered == calls' = calls + 1 /\ pc' = pc /\ resp'.op = "create"

\* C21: create fails with DuplicateKey and returns no key when the generated
\* key is the key of an existing license, and then leaves every table as it
\* is; otherwise it adds one row under a key no license has.  No two license
\* rows ever share a key.
C21_DuplicateKeyRejected ==
    [][/\ CreateAnswered =>
             \/ /\ resp'.error = "DuplicateKey" /\ IsNull(resp'.key)
                /\ \E i \in DOMAIN licenses : licenses[i].license_key \in GenKeys
                /\ licenses' = licenses
                /\ activations' = activations
                /\ verification_log' = verification_log
             \/ /\ resp'.error = "none"
                /\ Len(licenses') = Len(licenses) + 1
                /\ licenses'[Len(licenses')].license_key = Val(resp'.key)
                /\ \A i \in DOMAIN licenses : licenses[i].license_key # Val(resp'.key)
       /\ \A i, j \in DOMAIN licenses' :
             Upper(licenses'[i].license_key) = Upper(licenses'[j].license_key) => i = j]_vars

\* a create was refused with DuplicateKey while the existing license has an
\* activation
C21_Witness ==
    /\ resp.op = "create" /\ resp.error = "DuplicateKey"
    /\ Len(licenses) = 1
    /\ ActiveCount(licenses[1]) = 1
    /\ licenses[1].current_activations = 1

\* the type and the billing_type the product gives each tier string
ExpectedType ==
    [tier \in AllTiers |->
        CASE tier \in {"pro_lifetime", "pro_annual"} -> "pro"
          [] tier \in {"enterprise_lifetime", "enterprise_annual"} -> "enterprise"
          [] OTHER -> "free"]
ExpectedBilling ==
    [tier \in AllTiers |->
        IF tier \in {"pro_lifetime", "enterprise_lifetime"} THEN "one-time" ELSE "annual"]

\* C22: every created license has its type and billing_type from its tier
\* alone: type pro if the tier starts with "pro", enterprise if it starts
\* with "enterprise", free otherwise; billing_type one-time if the tier
\* contains "lifetime", annual otherwise; and the new row has status active
\* and current_activations 0.
C22_TierDerivation ==
    [](\A i \in DOMAIN licenses :
          /\ licenses[i].type = ExpectedType[licenses[i].tier]
          /\ licenses[i].billing_type = ExpectedBilling[licenses[i].tier]
          /\ licenses[i].status = "active"
          /\ licenses[i].current_activations = 0
          /\ IsNull(licenses[i].activated_at) /\ IsNull(licenses[i].expires_at))

\* a license was created with a tier that has "pro" in it but not at its
\* start
C22_Witness ==
    /\ resp.op = "create" /\ resp.error = "none"
    /\ \E i \in DOMAIN licenses :
          /\ licenses[i].tier = "team_pro"
          /\ licenses[i].type = "free"
          /\ licenses[i].billing_type = "annual"

\* the requests /activate can receive, as the handler holds them
ActivateRequests ==
    {[op |-> "activate", key |-> Strip(key), email |-> Strip(email),
      machine_id |-> Strip(machine_id), ip |-> ip] :
        key \in RequestKeys, email \in RequestEmails,
        machine_id \in RequestMachineIds, ip \in IPs}

\* the licenses a key names, compared case-insensitively
LicensesNamed(key) ==
    {i \in DOMAIN licenses : Upper(licenses[i].license_key) = Upper(key)}

\* the answer to req follows the order of the checks
AnsweredInOrder(req, r) ==
    IF req.key = "" \/ req.email = "" \/ req.machine_id = ""
    THEN r.error = "ValidationError"
    ELSE IF LicensesNamed(req.key) = {} THEN r.error = "InvalidKey"
    ELSE \A i \in LicensesNamed(req.key) :
            IF licenses[i].status # "active" THEN r.error = "LicenseNotActive"
            ELSE IF Lower(req.email) # Lower(licenses[i].email)
            THEN r.error = "EmailMismatch"
            ELSE /\ r.error \in {"ActivationLimitReached", "none"}
                 /\ r.error = "ActivationLimitReached" =>
                        licenses[i].current_activations >= licenses[i].max_activations

\* C23: the failures of activate are decided in a fixed order: a missing or
\* empty key, email or machine_id (ValidationError), then InvalidKey, then
\* LicenseNotActive, then EmailMismatch, then ActivationLimitReached, so
\* that an email mismatch is reported even when the machine has an
\* activation row; and a failing activate leaves licenses, activations and
\* the verification log unchanged.
C23_FailureOrder ==
    /\ [](\A req \in ActivateRequests :
             LET a == ActivateCall(licenses, activations, req, now) IN
             /\ AnsweredInOrder(req, a.resp)
             /\ ~a.resp.success =>
                   a.licenses = licenses /\ a.activations = activations)
    /\ [][((calls' = calls + 1 /\ pc' = pc /\ resp'.op = "activate")
           \/ \E p \in Procs : pc[p] = "activate_select_existing" /\ pc'[p] = "idle")
          => /\ ~resp'.success
             /\ licenses' = licenses
             /\ activations' = activations
             /\ verification_log' = verification_log]_vars

\* activate has just been refused with EmailMismatch for a license that is
\* active, at its limit and activated on a machine
C23_Witness ==
    /\ resp = ActivateFailure("EmailMismatch")
    /\ Quiet
    /\ \E i \in DOMAIN licenses :
          /\ licenses[i].status = "active"
          /\ licenses[i].current_activations = licenses[i].max_activations
          /\ ActiveCount(licenses[i]) = 1

\* every row that is deactivated in activations is deactivated in acts
StaysDeactivated(acts) ==
    \A j \in DOMAIN activations :
        activations[j].status = "deactivated" => acts[j].status = "deactivated"

\* C24: deactivation is one-way: no lifecycle call changes an activation row
\* from deactivated back to active, and activate called for a machine whose
\* row is deactivated (with the license's email, in any spelling of the key)
\* returns success, leaves that row deactivated and leaves
\* current_activations unchanged.
C24_DeactivationOneWay ==
    Quiet =>
    /\ \A key \in CallerKeys, machine_id \in MachineIds :
          /\ \A email \in CallerEmails, ip \in IPs :
                StaysDeactivated(
                    ActivateSerial(licenses, activations,
                                   [op |-> "activate", key |-> key, email |-> email,
                                    machine_id |-> machine_id, ip |-> ip],
                                   now).activations)
          /\ StaysDeactivated(
                 DeactivateSerial(licenses, activations,
                                  [op |-> "deactivate", key |-> key,
                                   machine_id |-> machine_id], now).activations)
          /\ StaysDeactivated(
                 VerifySerial(licenses, activations, verification_log,
                              [op |-> "verify", key |-> key,
                               machine_id |-> machine_id], now).activations)
    /\ \A i \in DOMAIN licenses, machine_id \in MachineIds :
          (/\ RowsOn(licenses[i], machine_id) # {}
           /\ \A j \in RowsOn(licenses[i], machine_id) :
                 activations[j].status = "deactivated") =>
              \A key \in SpellingsOf(licenses[i].license_key),
                 email \in CallerEmails, ip \in IPs :
                  ~EmailMismatch(email, licenses[i].email) =>
                      LET a == ActivateSerial(licenses, activations,
                                              [op |-> "activate", key |-> key,
                                               email |-> email,
                                               machine_id |-> machine_id, ip |-> ip],
                                              now) IN
                      /\ a.resp.success
                      /\ a.licenses[i].current_activations =
                             licenses[i].current_activations

\* C25: verify(key, machine_id) answers valid = true only if the license has
\* an activation row with status active for the machine; so after a
\* successful deactivate(key, machine_id) it answers valid = false.
C25_ValidOnlyIfActive ==
    \A i \in DOMAIN licenses, machine_id \in MachineIds :
        \A key \in SpellingsOf(licenses[i].license_key) :
            VerifySerial(licenses, activations, verification_log,
                         [op |-> "verify", key |-> key, machine_id |-> machine_id],
                         now).resp.valid
            => \E j \in RowsOn(licenses[i], machine_id) : activations[j].status = "active"

\* handler p commits an activate in this step and answers success
ActivateCommitted(p) ==
    /\ pc[p] = "activate_write"
    /\ pc'[p] = "idle"
    /\ resp'.op = "activate" /\ resp'.error = "none"

\* C26: for an annual license, the expires value a successful activate
\* returns equals the license's persisted expires_at after that call, which
\* is the expires value verify returns for the license from then on.
C26_ReturnedExpiryIsPersisted ==
    [][\A p \in Procs :
          ActivateCommitted(p) =>
              \A i \in DOMAIN licenses :
                  (/\ Upper(licenses[i].license_key) = Upper(local[p].req.key)
                   /\ licenses[i].billing_type = "annual") =>
                      /\ resp'.expires = licenses'[i].expires_at
                      /\ \A key \in SpellingsOf(licenses[i].license_key) :
                            LET v == VerifySerial(licenses', activations',
                                                  verification_log',
                                                  [op |-> "verify", key |-> key,
                                                   machine_id |->
                                                       local[p].req.machine_id],
                                                  now').resp IN
                            v.valid => v.expires = resp'.expires]_vars

====
